---- MODULE Spec2Model ----
(***************************************************************************)
(* Model of enable_memberfunc_traits.cpp: the result wrapper               *)
(* optional_type<T>, the decorators exception_fail_safe / output /         *)
(* log_time, the visitor classmethod, the member functor class_memberfunc  *)
(* and the example class apples with its calculate_cost slot.              *)
(*                                                                         *)
(* doubles are modelled by integers (the claims concern which branch is    *)
(* taken and which operands are multiplied, not rounding); the int count   *)
(* is converted to double before it is multiplied, so no integer overflow  *)
(* is involved.                                                            *)
(***************************************************************************)
EXTENDS Integers, Sequences, FiniteSets, TLC

\* ---------------------------------------------------------------- bounds
MaxCalls   == 2      \* invocations of a slot in one behaviour
MaxArg     == 1      \* largest count / weight passed to a slot
MaxDecos   == 3      \* decorators nested around a callable under test

\* storage locations an apples object can live at
Addr    == {1, 2}
Args    == (-1)..MaxArg
\* values of cost_per_apple
Costs   == {2, 3}
\* values a callable under test returns
Values  == {0, 5}
\* what an uninitialised double may hold
Garbage == {7, 9}

\* ------------------------------------------------- messages (string literals)
MsgCount   == "must have 1 or more apples"
MsgWeight  == "apples must weigh more than 0 ounces"
MsgDefault == "Exception caught: default exception"
MsgIo      == "basic_ios::clear"
Whats      == {MsgCount, MsgWeight, MsgIo}

\* ------------------------------------------------------------ optional_type
\* placeholder where no optional_type object exists
NoOpt == [value |-> 0, OK |-> FALSE, BAD |-> FALSE, msg |-> "", made |-> FALSE]

\* optional_type(T t) : value(t) { OK = true; BAD = false; }
optional_type_T(t) ==
    [value |-> t, OK |-> TRUE, BAD |-> FALSE, msg |-> "", made |-> TRUE]

\* mutant: the second constructor sets BAD = ok
optional_type_bool_same_flags(ok, m, g) ==
    [value |-> g, OK |-> ok, BAD |-> ok, msg |-> m, made |-> TRUE]

\* optional_type(bool ok, std::string msg) : msg(msg) { OK = ok; BAD = !ok; }
\* value is left uninitialised: it holds g
optional_type_bool(ok, m, g) ==
    [value |-> g, OK |-> ok, BAD |-> ~ok, msg |-> m, made |-> TRUE]

\* ------------------------------------------------ what a call comes back with
NoFault == [type |-> "none", what |-> ""]

\* the callee returned a double
Returned(v)    == [kind |-> "value", v |-> v, opt |-> NoOpt, fault |-> NoFault]
\* the callee returned an optional_type<double>
ReturnedOpt(o) == [kind |-> "opt", v |-> 0, opt |-> o, fault |-> NoFault]
\* the callee threw
Thrown(t, w)   == [kind |-> "throw", v |-> 0, opt |-> NoOpt,
                   fault |-> [type |-> t, what |-> w]]

\* exception types: std::iostream::failure derives from std::exception,
\* so does std::runtime_error; anything else is only caught by catch(...)
IsIosFailure(t)   == t = "ios_failure"
IsStdException(t) == t \in {"ios_failure", "runtime_error", "bad_function_call"}
FaultTypes        == {"ios_failure", "runtime_error", "other"}

\* A run of a callable: what it came back with, the lines it wrote to
\* std::cout, and how many times the innermost callable F was invoked.
Run(oc, lines, calls) == [oc |-> oc, lines |-> lines, calls |-> calls]

\* ------------------------------------------------------------------ lines
CostLine(v)  == [kind |-> "cost",   num |-> v, str |-> "Bag cost $"]
ErrorLine(m) == [kind |-> "error",  num |-> 0, str |-> m]
LoggedLine   == [kind |-> "logged", num |-> 0, str |-> "> Logged at "]
\* std::ctime's text ends in '\n' and std::endl adds another
BlankLine    == [kind |-> "blank",  num |-> 0, str |-> ""]

Kinds(lines) == [i \in 1..Len(lines) |-> lines[i].kind]

\* ------------------------------------------------------------- decorators
\* mutant: no catch(...) clause, an unrecognised exception propagates
exception_fail_safe_no_catch_all(r, g) ==
    IF r.oc.kind = "value"
    THEN Run(ReturnedOpt(optional_type_T(r.oc.v)), r.lines, r.calls)
    ELSE IF r.oc.kind = "throw" /\ IsStdException(r.oc.fault.type)
    THEN Run(ReturnedOpt(optional_type_bool(FALSE, r.oc.fault.what, g)),
             r.lines, r.calls)
    ELSE r

\* exception_fail_safe(func)(args...): r is the run of func(args...)
exception_fail_safe(r, g) ==
    IF r.oc.kind = "value"
    THEN Run(ReturnedOpt(optional_type_T(r.oc.v)), r.lines, r.calls)
    ELSE IF r.oc.kind = "throw"
    THEN IF IsIosFailure(r.oc.fault.type)
         THEN Run(ReturnedOpt(optional_type_bool(FALSE, r.oc.fault.what, g)),
                  r.lines, r.calls)
         ELSE IF IsStdException(r.oc.fault.type)
         THEN Run(ReturnedOpt(optional_type_bool(FALSE, r.oc.fault.what, g)),
                  r.lines, r.calls)
         ELSE Run(ReturnedOpt(optional_type_bool(FALSE, MsgDefault, g)),
                  r.lines, r.calls)
    ELSE r

\* mutant: the value is reported whatever the flags say
output_always_value(r) ==
    IF r.oc.kind = "opt"
    THEN Run(r.oc, Append(r.lines, CostLine(r.oc.opt.value)), r.calls)
    ELSE r

\* mutant: the wrapper returns opt.value, which converts to a fresh result
output_rewraps(r) ==
    IF r.oc.kind = "opt"
    THEN IF r.oc.opt.BAD
         THEN Run(ReturnedOpt(optional_type_T(r.oc.opt.value)),
                  Append(r.lines, ErrorLine(r.oc.opt.msg)), r.calls)
         ELSE Run(ReturnedOpt(optional_type_T(r.oc.opt.value)),
                  Append(r.lines, CostLine(r.oc.opt.value)), r.calls)
    ELSE r

\* output(func)(args...): r is the run of func(args...); an exception of
\* func leaves the lambda before anything is written
output(r) ==
    IF r.oc.kind = "opt"
    THEN IF r.oc.opt.BAD
         THEN Run(r.oc, Append(r.lines, ErrorLine(r.oc.opt.msg)), r.calls)
         ELSE Run(r.oc, Append(r.lines, CostLine(r.oc.opt.value)), r.calls)
    ELSE r

\* mutant: the time is logged only for a success result
log_time_only_ok(r) ==
    IF r.oc.kind = "throw" \/ (r.oc.kind = "opt" /\ r.oc.opt.BAD)
    THEN r
    ELSE Run(r.oc, r.lines \o <<LoggedLine, BlankLine>>, r.calls)

\* log_time(func)(args...): r is the run of func(args...)
log_time(r) ==
    IF r.oc.kind = "throw"
    THEN r
    ELSE Run(r.oc, r.lines \o <<LoggedLine, BlankLine>>, r.calls)

Decorators == {"log_time", "output", "exception_fail_safe"}

Decorate(d, r, g) ==
    CASE d = "exception_fail_safe" -> exception_fail_safe(r, g)
      [] d = "output"              -> output(r)
      [] d = "log_time"            -> log_time(r)

\* decos lists the decorators outermost first, as the source nests them
RECURSIVE RunChain(_, _, _)
RunChain(decos, r, g) ==
    IF decos = <<>> THEN r
    ELSE Decorate(Head(decos), RunChain(Tail(decos), r, g), g)

\* ------------------------------------------------------------------ apples
\* mutant: the weight is checked before the count
calculate_cost_impl_weight_first(c, count, weight) ==
    IF weight <= 0 THEN Thrown("runtime_error", MsgWeight)
    ELSE IF count <= 0 THEN Thrown("runtime_error", MsgCount)
    ELSE Returned(count * weight * c)

\* mutant: a weight of zero is let through
calculate_cost_impl_weight_strict(c, count, weight) ==
    IF count <= 0 THEN Thrown("runtime_error", MsgCount)
    ELSE IF weight < 0 THEN Thrown("runtime_error", MsgWeight)
    ELSE Returned(count * weight * c)

\* double calculate_cost_impl(int count, double weight), on an object whose
\* cost_per_apple reads c
calculate_cost_impl(c, count, weight) ==
    IF count <= 0 THEN Thrown("runtime_error", MsgCount)
    ELSE IF weight <= 0 THEN Thrown("runtime_error", MsgWeight)
    ELSE Returned(count * weight * c)

\* classmethod(&apples::calculate_cost_impl)(a, args...) == (a.*func)(args...)
classmethod(c, count, weight) ==
    Run(calculate_cost_impl(c, count, weight), <<>>, 1)

\* callables a slot can store
Empty     == [decos |-> <<>>, base |-> "none"]
CtorChain == [decos |-> <<"log_time", "output", "exception_fail_safe">>,
              base |-> "impl"]
\* the undecorated visitor: it returns a double, which std::function
\* converts to optional_type<double>, and lets exceptions through
RawMethod == [decos |-> <<>>, base |-> "impl"]
\* rhs of an assignment to a slot; nullptr gives an empty std::function
Assignable == {RawMethod, CtorChain, Empty}

\* std::function<optional_type<double>(apples&, int, double)>::operator()
\* on a stored callable cb, the receiver's cost_per_apple reading c
function_call(cb, c, count, weight, g) ==
    IF cb = Empty
    THEN Run(Thrown("bad_function_call", "bad_function_call"), <<>>, 0)
    ELSE LET r == RunChain(cb.decos, classmethod(c, count, weight), g)
         IN  IF r.oc.kind = "value"
             THEN Run(ReturnedOpt(optional_type_T(r.oc.v)), r.lines, r.calls)
             ELSE r


\* ------------------------------------------------ callables under test
\* What a callable F handed to a decorator does when it is invoked:
\* "return" a double v, "throw" an exception, or return an optional_type
\* built by optional_type(T) ("T") or by optional_type(bool, string) ("bool")
Beh(does, v, ok, m, type, what) ==
    [does |-> does, v |-> v, ok |-> ok, m |-> m, type |-> type, what |-> what]

ReturnsDouble == {Beh("return", v, FALSE, "", "none", "") : v \in Values}
Throws ==
    {Beh("throw", 0, FALSE, "", t, w) :
        t \in {"ios_failure", "runtime_error"}, w \in Whats}
    \cup {Beh("throw", 0, FALSE, "", "other", "")}
ReturnsOptT    == {Beh("T", v, FALSE, "", "none", "") : v \in Values}
ReturnsOptBool == {Beh("bool", 0, ok, m, "none", "") :
                      ok \in BOOLEAN, m \in {"", MsgWeight}}

\* F(args...)
InvokeF(beh, g) ==
    CASE beh.does = "return" -> Run(Returned(beh.v), <<>>, 1)
      [] beh.does = "throw"  -> Run(Thrown(beh.type, beh.what), <<>>, 1)
      [] beh.does = "T"      -> Run(ReturnedOpt(optional_type_T(beh.v)), <<>>, 1)
      [] beh.does = "bool"   ->
            Run(ReturnedOpt(optional_type_bool(beh.ok, beh.m, g)), <<>>, 1)

NoRun == Run(Returned(0), <<>>, 0)

\* pc: "idle" | "input" (F and its arguments chosen) | "unwind" (F has come
\* back; control returns outward through the wrappers) | "done"
\* rtype: the return type of the callable composed so far
\* chain: the decorators applied so far, innermost first
\* run: the run of the callable composed so far; prev: the run of the
\* callable the latest decorator wraps; safe: what exception_fail_safe
\* returned, once it is in the chain
Harness(pc, rtype, beh, chain, run, prev, safe) ==
    [pc |-> pc, rtype |-> rtype, beh |-> beh, chain |-> chain,
     run |-> run, prev |-> prev, safe |-> safe]

HIdle == Harness("idle", "double", Beh("return", 0, FALSE, "", "none", ""),
                 <<>>, NoRun, NoRun, NoRun)

HInputs ==
    {Harness("input", "double", b, <<>>, NoRun, NoRun, NoRun) :
        b \in ReturnsDouble \cup Throws}
    \cup
    {Harness("input", "optional", b, <<>>, NoRun, NoRun, NoRun) :
        b \in ReturnsOptT \cup ReturnsOptBool \cup Throws}

VARIABLES
    state,   \* state[a]: "free" | "init" (members initialised) | "live"
    cost,    \* cost[a]: apples::cost_per_apple of the object at a
    self,    \* self[a]: class_memberfunc::self of the slot of the object at a
    f,       \* f[a]: class_memberfunc::f of that slot
    out,     \* std::cout: the kind of each line written so far (the text
             \* of the lines of the latest call is in last.lines)
    invoked, \* the callables invoked through a slot so far, in order
    last,    \* the invocation that has just returned to its caller
    h        \* one nested call of decorators around a callable F, unwinding

vars == <<state, cost, self, f, out, invoked, last, h>>

NoCall == [slot |-> 0, count |-> 0, weight |-> 0, callable |-> Empty,
           receiver |-> 0, ownerCost |-> 0, oc |-> Returned(0),
           lines |-> <<>>, calls |-> 0]

Init ==
    /\ state = [a \in Addr |-> "free"]
    /\ cost = [a \in Addr |-> 0]
    /\ self = [a \in Addr |-> 0]
    /\ f = [a \in Addr |-> Empty]
    /\ out = <<>>
    /\ invoked = <<>>
    /\ h = HIdle
    /\ last = NoCall

\* no constructor is between its member initialisers and its body
Quiet == \A a \in Addr : state[a] # "init"

\* apples(double c), member initialisers: cost_per_apple(c) and
\* calculate_cost(memberfunc<...>(this)), whose f is still empty
CtorInit(a, c) ==
    /\ Quiet
    /\ state[a] = "free"
    /\ state' = [state EXCEPT ![a] = "init"]
    /\ cost' = [cost EXCEPT ![a] = c]
    /\ self' = [self EXCEPT ![a] = a]
    /\ f' = [f EXCEPT ![a] = Empty]
    /\ last' = NoCall
    /\ UNCHANGED <<out, invoked, h>>

\* mutant: the constructor body does not assign the decorator chain
CtorBody_unassigned(a) ==
    /\ state[a] = "init"
    /\ state' = [state EXCEPT ![a] = "live"]
    /\ last' = NoCall
    /\ UNCHANGED <<cost, self, f, out, invoked, h>>

\* apples(double c), body: this->calculate_cost = log_time(output(...))
CtorBody(a) ==
    /\ state[a] = "init"
    /\ state' = [state EXCEPT ![a] = "live"]
    /\ f' = [f EXCEPT ![a] = CtorChain]
    /\ last' = NoCall
    /\ UNCHANGED <<cost, self, out, invoked, h>>

\* apples b(a): the implicit copy constructor copies cost_per_apple and
\* copy-constructs the slot (self = rhs.self, f = rhs.f)
CopyConstruct(b, a) ==
    /\ Quiet
    /\ state[b] = "free"
    /\ state[a] = "live"
    /\ state' = [state EXCEPT ![b] = "live"]
    /\ cost' = [cost EXCEPT ![b] = cost[a]]
    /\ self' = [self EXCEPT ![b] = self[a]]
    /\ f' = [f EXCEPT ![b] = f[a]]
    /\ last' = NoCall
    /\ UNCHANGED <<out, invoked, h>>

\* a = b: the implicit copy assignment of apples copies cost_per_apple and
\* the slot's two members, self and f
CopyAssign(a, b) ==
    /\ Quiet
    /\ state[a] = "live"
    /\ state[b] = "live"
    /\ cost' = [cost EXCEPT ![a] = cost[b]]
    /\ self' = [self EXCEPT ![a] = self[b]]
    /\ f' = [f EXCEPT ![a] = f[b]]
    /\ last' = NoCall
    /\ UNCHANGED <<state, out, invoked, h>>

\* x.calculate_cost = rhs: template operator=(const F&) replaces f
AssignCallable(a, cb) ==
    /\ Quiet
    /\ state[a] = "live"
    /\ f' = [f EXCEPT ![a] = cb]
    /\ last' = NoCall
    /\ UNCHANGED <<state, cost, self, out, invoked, h>>

\* ~apples(): the storage at a no longer holds an object
Destroy(a) ==
    /\ Quiet
    /\ state[a] = "live"
    /\ state' = [state EXCEPT ![a] = "free"]
    /\ cost' = [cost EXCEPT ![a] = 0]
    /\ self' = [self EXCEPT ![a] = 0]
    /\ f' = [f EXCEPT ![a] = Empty]
    /\ last' = NoCall
    /\ UNCHANGED <<out, invoked, h>>

\* the values a read of cost_per_apple through the pointer r can give: the
\* member of the object living at r, or anything when no object lives there
ReadCost(r) == IF state[r] = "live" THEN {cost[r]} ELSE Costs

\* x.calculate_cost(count, weight): return f(*self, args...)
Invoke(a, count, weight) ==
    /\ Quiet
    /\ state[a] = "live"
    /\ Len(invoked) < MaxCalls
    /\ \E c \in ReadCost(self[a]), g \in Garbage :
         LET r == function_call(f[a], c, count, weight, g)
         IN  /\ last' = [slot |-> a, count |-> count, weight |-> weight,
                         callable |-> f[a], receiver |-> self[a],
                         ownerCost |-> cost[a], oc |-> r.oc,
                         lines |-> r.lines, calls |-> r.calls]
             /\ out' = out \o Kinds(r.lines)
    /\ invoked' = Append(invoked, f[a])
    /\ UNCHANGED <<state, cost, self, f, h>>

Next ==
    \/ \E a \in Addr, c \in Costs : CtorInit(a, c)
    \/ \E a \in Addr : CtorBody(a)
    \/ \E a, b \in Addr : CopyConstruct(b, a)
    \/ \E a, b \in Addr : CopyAssign(a, b)
    \/ \E a \in Addr, cb \in Assignable : AssignCallable(a, cb)
    \/ \E a \in Addr : Destroy(a)
    \/ \E a \in Addr, count \in Args, weight \in Args : Invoke(a, count, weight)

Spec == Init /\ [][Next]_vars

\* ------------------------------------------- one nested call, step by step
main == <<state, cost, self, f, out, invoked, last>>

InitDeco ==
    /\ state = [a \in Addr |-> "free"]
    /\ cost = [a \in Addr |-> 0]
    /\ self = [a \in Addr |-> 0]
    /\ f = [a \in Addr |-> Empty]
    /\ out = <<>>
    /\ invoked = <<>>
    /\ last = NoCall
    /\ h \in HInputs

\* the innermost callable runs
HInvokeF ==
    /\ h.pc = "input"
    /\ \E g \in Garbage :
         h' = [h EXCEPT !.pc = "unwind", !.run = InvokeF(h.beh, g)]
    /\ UNCHANGED main

\* control returns through a wrapper made by exception_fail_safe; it
\* compiles only around a callable that returns a plain value
HFailSafe ==
    /\ h.pc = "unwind"
    /\ Len(h.chain) < MaxDecos
    /\ h.rtype = "double"
    /\ \E g \in Garbage :
         LET r == exception_fail_safe(h.run, g)
         IN  h' = [h EXCEPT !.rtype = "optional",
                            !.chain = Append(h.chain, "exception_fail_safe"),
                            !.prev = h.run, !.run = r, !.safe = r]
    /\ UNCHANGED main

\* control returns through a wrapper made by output; it compiles only
\* around a callable that returns an optional_type
HOutput ==
    /\ h.pc = "unwind"
    /\ Len(h.chain) < MaxDecos
    /\ h.rtype = "optional"
    /\ h' = [h EXCEPT !.chain = Append(h.chain, "output"),
                      !.prev = h.run, !.run = output(h.run)]
    /\ UNCHANGED main

\* control returns through a wrapper made by log_time
HLogTime ==
    /\ h.pc = "unwind"
    /\ Len(h.chain) < MaxDecos
    /\ h' = [h EXCEPT !.chain = Append(h.chain, "log_time"),
                      !.prev = h.run, !.run = log_time(h.run)]
    /\ UNCHANGED main

\* the outermost wrapper hands its result (or the exception) to the caller
HReturn ==
    /\ h.pc = "unwind"
    /\ h' = [h EXCEPT !.pc = "done"]
    /\ UNCHANGED main

NextDeco == HInvokeF \/ HFailSafe \/ HOutput \/ HLogTime \/ HReturn

SpecDeco == InitDeco /\ [][NextDeco]_vars

\* ================================================================= claims
\* an invocation through a slot holding the constructor's decorator chain
\* has just returned
ChainCall == last.slot # 0 /\ last.callable = CtorChain

\* C1: for every count > 0 and weight > 0, invoking the calculate_cost slot
\* on an instance with unit cost c returns a success result (OK true, BAD
\* false) whose value is count * weight * c.
C1_CostOfOwner ==
    (ChainCall /\ last.count > 0 /\ last.weight > 0)
        => /\ last.oc.kind = "opt"
           /\ last.oc.opt.OK /\ ~last.oc.opt.BAD
           /\ last.oc.opt.value = last.count * last.weight * last.ownerCost

\* C2: for every count <= 0 and every weight, invoking the calculate_cost
\* slot returns a failure result (BAD true, OK false) whose message is the
\* count precondition message, never a success value.
C2_CountFailure ==
    (ChainCall /\ last.count <= 0)
        => /\ last.oc.kind = "opt"
           /\ last.oc.opt.BAD /\ ~last.oc.opt.OK
           /\ last.oc.opt.msg = MsgCount
           /\ last.calls = 1

C2_Witness ==
    ChainCall /\ last.count <= 0 /\ last.weight <= 0 /\ last.oc.opt.BAD

\* C3 as stated: for every weight <= 0 and every count (positive, zero or
\* negative), the slot returns a failure result whose message is the weight
\* precondition message.
C3_AnyCount ==
    (ChainCall /\ last.weight <= 0)
        => /\ last.oc.kind = "opt"
           /\ last.oc.opt.BAD /\ ~last.oc.opt.OK
           /\ last.oc.opt.msg = MsgWeight

\* C3 amended: for every weight <= 0 and every count > 0, the slot returns a
\* failure result whose message is the weight precondition message (for
\* count <= 0 the count precondition is reported, whatever the weight).
C3_WeightFailure ==
    (ChainCall /\ last.weight <= 0 /\ last.count > 0)
        => /\ last.oc.kind = "opt"
           /\ last.oc.opt.BAD /\ ~last.oc.opt.OK
           /\ last.oc.opt.msg = MsgWeight

C3_Witness ==
    ChainCall /\ last.weight <= 0 /\ last.count > 0 /\ last.oc.opt.BAD

\* C9: invoking a slot, also the slot of a copy-constructed instance, passes
\* the instance that owns the slot as the first argument of the stored
\* callable, so a copy computes with its own unit cost.
C9_ReceiverIsOwner ==
    (last.slot # 0 /\ last.callable # Empty)
        => /\ last.receiver = last.slot
           /\ (last.count > 0 /\ last.weight > 0)
                 => /\ last.oc.kind = "opt"
                    /\ last.oc.opt.value
                           = last.count * last.weight * last.ownerCost

NonBlank(lines) == SelectSeq(lines, LAMBDA k : k # "blank")
ChainCalls == Cardinality({i \in 1..Len(invoked) : invoked[i] = CtorChain})

\* C5: every invocation of the calculate_cost slot, success or failure,
\* appends to standard output exactly one report line (cost or error) and
\* then exactly one "> Logged at" line, before it returns; after n
\* invocations the output holds n report/timestamp pairs, alternating.
C5_ReportThenTimestamp ==
    /\ ChainCall =>
          /\ NonBlank(Kinds(last.lines))
                 = <<(IF last.oc.opt.BAD THEN "error" ELSE "cost"), "logged">>
          /\ Len(out) >= Len(last.lines)
          /\ SubSeq(out, Len(out) - Len(last.lines) + 1, Len(out))
                 = Kinds(last.lines)
    /\ LET nb == NonBlank(out)
       IN  /\ Len(nb) = 2 * ChainCalls
           /\ \A k \in 1..ChainCalls :
                 /\ nb[2 * k - 1] \in {"cost", "error"}
                 /\ nb[2 * k] = "logged"

C5_Witness ==
    /\ ChainCall
    /\ last.oc.opt.BAD
    /\ NonBlank(out) = <<"cost", "logged", "error", "logged">>

SafeIn == \E i \in 1..Len(h.chain) : h.chain[i] = "exception_fail_safe"
Outer  == h.chain[Len(h.chain)]

\* C4: a call to exception_fail_safe(F) invokes F exactly once, lets no fault
\* of F propagate and returns a failure result whose message is the fault's
\* description for std::iostream::failure and std::exception, and the
\* default-exception message for any other fault; the decorators around it
\* and the caller only observe a result.
C4_NoFaultEscapes ==
    SafeIn =>
        /\ h.run.calls = 1
        /\ h.safe.oc.kind = "opt"
        /\ h.run.oc.kind = "opt"
        /\ h.beh.does = "throw" =>
              /\ h.safe.oc.opt.BAD /\ ~h.safe.oc.opt.OK
              /\ h.safe.oc.opt.msg =
                    (IF h.beh.type \in {"ios_failure", "runtime_error"}
                     THEN h.beh.what ELSE MsgDefault)

C4_Witness ==
    /\ h.pc = "done"
    /\ h.chain = <<"exception_fail_safe", "output", "log_time">>
    /\ h.beh.does = "throw" /\ h.beh.type = "other"
    /\ h.run.oc.opt.msg = MsgDefault

\* C6: the wrapper made by output writes, for a success result, a
\* "Bag cost $" line with the result's value and, for a failure result, a
\* "There was an error: " line with the result's message; what it writes for
\* a failure result does not come from the value field.
C6_OutputReports ==
    (h.chain # <<>> /\ Outer = "output" /\ h.prev.oc.kind = "opt") =>
        /\ Len(h.run.lines) = Len(h.prev.lines) + 1
        /\ SubSeq(h.run.lines, 1, Len(h.prev.lines)) = h.prev.lines
        /\ LET line == h.run.lines[Len(h.run.lines)]
           IN  IF h.prev.oc.opt.BAD
               THEN /\ line.kind = "error"
                    /\ line.str = h.prev.oc.opt.msg
                    /\ line.num # h.prev.oc.opt.value
               ELSE /\ line.kind = "cost"
                    /\ line.num = h.prev.oc.opt.value

C6_Witness ==
    /\ h.chain = <<"exception_fail_safe", "output">>
    /\ h.prev.oc.opt.BAD
    /\ h.run.lines = <<ErrorLine(MsgCount)>>

\* C7: the wrappers made by output and by log_time return the result of the
\* callable they wrap unchanged (flags, message, value), so the caller
\* receives the result exception_fail_safe produced.
C7_PassThrough ==
    /\ (h.chain # <<>> /\ Outer \in {"output", "log_time"})
          => h.run.oc = h.prev.oc
    /\ SafeIn => h.run.oc = h.safe.oc

C7_Witness ==
    /\ h.pc = "done"
    /\ h.chain = <<"exception_fail_safe", "output", "log_time">>
    /\ h.run.oc.kind = "opt" /\ h.run.oc.opt.BAD
    /\ h.run.oc = h.safe.oc

\* C8: every optional_type has exactly one of OK / BAD true, however it was
\* constructed and whatever decorators it passed through; construction from
\* a value or from (true, message) gives OK, construction from
\* (false, message) gives BAD with that message.
C8_ExactlyOneFlag ==
    /\ \A r \in {h.run, h.prev, h.safe} :
          r.oc.kind = "opt" => (r.oc.opt.OK # r.oc.opt.BAD)
    /\ (h.pc \in {"unwind", "done"} /\ h.beh.does = "T") =>
          /\ h.run.oc.opt.OK /\ ~h.run.oc.opt.BAD
          /\ h.run.oc.opt.value = h.beh.v
    /\ (h.pc \in {"unwind", "done"} /\ h.beh.does = "bool" /\ h.beh.ok) =>
          h.run.oc.opt.OK /\ ~h.run.oc.opt.BAD
    /\ (h.pc \in {"unwind", "done"} /\ h.beh.does = "bool" /\ ~h.beh.ok) =>
          /\ h.run.oc.opt.BAD /\ ~h.run.oc.opt.OK
          /\ h.run.oc.opt.msg = h.beh.m

C8_Witness ==
    /\ h.pc = "done"
    /\ h.beh.does = "bool" /\ h.beh.ok
    /\ h.chain = <<"output", "log_time">>
    /\ h.run.oc.opt.OK /\ ~h.run.oc.opt.BAD
====
